---- MODULE Spec2Model ----
(***************************************************************************)
(* The voice round-trip pipeline of XAI_MBTI: the three service clients    *)
(* (audio_service.py, chat_service.py) as operators over the outcomes of   *)
(* their HTTP and file-system calls, and the Gradio handlers of app.py     *)
(* (handle_chat, handle_audio, handle_upload, clear) as actions over the   *)
(* two history components.                                                 *)
(*                                                                         *)
(* Texts are TLA+ strings.  Python's None is the string None below, which  *)
(* no text of the model equals.  A call that can raise returns a record    *)
(* with a field raised; ev is the sequence of outbound calls it made.      *)
(***************************************************************************)
EXTENDS Integers, Sequences, FiniteSets, TLC

VARIABLES
    chatbot,        \* Display History: the gr.Chatbot value, a sequence of <<user, reply>>
    chat_history,   \* Session History: the gr.State value
    pc,             \* "idle", or "returned": a handler has returned, outputs not yet applied
    turn,           \* the handler call that returned last: its inputs, outputs and calls
    call            \* a direct call of one service client: its inputs and its result

vars == <<chatbot, chat_history, pc, turn, call>>

\* ------------------------------------------------------------------ bounds

\* Turn handlers are started only while Display History is shorter than this.
MaxTurns == 2

\* ------------------------------------------------------------ Python values

None == "<None>"

\* `not x` for an Optional[str]
Falsy(x) == x = None \/ x = ""

\* the positions of s that hold a character other than c
positions_not(s, c) == {i \in 1..Len(s) : SubSeq(s, i, i) # c}

\* str.strip() over the one whitespace character the model's texts use
strip(s) ==
    LET keep == positions_not(s, " ") IN
    IF keep = {} THEN ""
    ELSE SubSeq(s, CHOOSE i \in keep : \A j \in keep : i <= j,
                   CHOOSE i \in keep : \A j \in keep : j <= i)

\* os.path.basename: what follows the last "/"
basename(p) ==
    LET slashes == (1..Len(p)) \ positions_not(p, "/") IN
    IF slashes = {} THEN p
    ELSE SubSeq(p, (CHOOSE i \in slashes : \A j \in slashes : j <= i) + 1, Len(p))

\* a function result: it either raised, or returned val, after the calls ev
Ret(v, e) == [raised |-> FALSE, val |-> v, ev |-> e]
Raise(e) == [raised |-> TRUE, val |-> None, ev |-> e]

\* ------------------------------------------------- audio_service.py: token

\* tok is what the token endpoint does: "ok" (200 with an access_token),
\* "nokey" (200 without one), "non200", or "raise" (requests.post raises).
TokenOutcomes == {"ok", "nokey", "non200", "raise"}

get_baidu_access_token(tok) ==
    LET e == <<[call |-> "baidu_token"]>> IN
    IF tok = "raise" THEN Raise(e)
    ELSE IF tok = "ok" THEN Ret("access_token", e)
    ELSE Ret(None, e)

\* ------------------------------------------- audio_service.py: recognition

\* An audio file: its path, its extension, what a decoder finds in it (ok is
\* FALSE for an empty or undecodable file), its sample rate and channels.
AudioFile(p, x, r, c, k) == [path |-> p, ext |-> x, rate |-> r, channels |-> c, ok |-> k]

\* convert_to_wav returning None
NoFile == AudioFile(None, "", 0, 0, FALSE)

ConvertedPath == "/tmp/convert_to_wav.wav"
NumpyPath == "/tmp/asr_recognize_from_numpy.wav"

\* A .wav that reads as 16000 Hz is returned as it is, whatever its channel
\* count; anything else goes through pydub to a new mono 16000 Hz file, and
\* any exception (an undecodable file) gives None.
convert_to_wav(f) ==
    IF f.ext = ".wav" /\ f.ok /\ f.rate = 16000 THEN f
    ELSE IF f.ok THEN AudioFile(ConvertedPath, ".wav", 16000, 1, TRUE)
    ELSE NoFile

\* the model id with Mandarin as the default
dev_pid_mandarin(language) ==
    IF language = "Chinese" THEN 1537
    ELSE IF language = "English" THEN 1737
    ELSE 1537

\* the recognition model id of a language
dev_pid(language) ==
    IF language = "Chinese" THEN 1537
    ELSE IF language = "English" THEN 1737
    ELSE 1737

AsrRequestFailed == "Speech recognition request failed"
AsrFailed == "Speech recognition failed"
AsrTimeout == "Speech recognition request timeout"
AsrNetwork == "Speech recognition network request failed"
AsrConversion == "Audio format conversion failed"
AsrRead == "Failed to read audio file"
AsrNumpy == "Audio data processing failed"
AsrNoToken == "Unable to get Baidu access token"

\* every failure string asr_recognize and asr_recognize_from_numpy return
AsrFailureStrings ==
    {AsrFailed, AsrRequestFailed, AsrTimeout, AsrNetwork, AsrConversion, AsrRead,
     AsrNumpy, AsrNoToken}

\* What the world does during one recognition: the token endpoint (tok),
\* opening the converted file (read: "ok" or "fail"), the recognition POST
\* (post: "ok" err_no 0 with candidates, "err_no", "empty" candidates,
\* "non200", "timeout", "neterr"), and the first candidate (text).
AsrEnv(t, r, p, x) == [tok |-> t, read |-> r, post |-> p, text |-> x]

\* the recognition request, after the token request
asr_post(t, w, language) ==
    t.ev \o <<[call |-> "asr_post", dev_pid |-> dev_pid(language), rate |-> w.rate,
               channels |-> w.channels, nonempty |-> w.ok]>>

\* asr_recognize once the token request gave t and convert_to_wav gave w
asr_recognize_with(t, w, language, e) ==
    IF t.raised THEN Raise(t.ev)
    ELSE IF Falsy(t.val) THEN Ret(AsrNoToken, t.ev)
    ELSE IF w = NoFile THEN Ret(AsrConversion, t.ev)
    ELSE IF e.read = "fail" THEN Ret(AsrRead, t.ev)
    ELSE IF e.post = "ok" THEN Ret(e.text, asr_post(t, w, language))
    ELSE IF e.post \in {"err_no", "empty"} THEN Ret(AsrFailed, asr_post(t, w, language))
    ELSE IF e.post = "non200" THEN Ret(AsrRequestFailed, asr_post(t, w, language))
    ELSE IF e.post = "timeout" THEN Ret(AsrTimeout, asr_post(t, w, language))
    ELSE Ret(AsrNetwork, asr_post(t, w, language))

asr_recognize(f, language, e) ==
    asr_recognize_with(get_baidu_access_token(e.tok), convert_to_wav(f), language, e)

\* One component of a recording pair: the sample rate (an int) or the
\* samples (an array).
RateOf(n) == [kind |-> "int", v |-> n]
Samples == [kind |-> "array", v |-> 0]

\* soundfile.write(file, data, samplerate) raises unless data is the array
\* and samplerate the number.
sf_write_ok(data, samplerate) == data.kind = "array" /\ samplerate.kind = "int"

\* the `except Exception` of asr_recognize_from_numpy, around the result r
numpy_caught(r) == IF r.raised THEN Ret(AsrNumpy, r.ev) ELSE r

\* sf.write and asr_recognize run inside try/except Exception: nothing is
\* raised to the caller.
asr_recognize_from_numpy(audio_data, sample_rate, language, e) ==
    IF ~sf_write_ok(audio_data, sample_rate) THEN Ret(AsrNumpy, <<>>)
    ELSE numpy_caught(asr_recognize(AudioFile(NumpyPath, ".wav", sample_rate.v, 1, TRUE),
                                    language, e))

\* The temporary files asr_recognize leaves behind when it returns, the
\* token request having given t.  convert_to_wav creates its file before it
\* decodes the input and deletes it on no path; asr_recognize deletes it
\* after a successful read only.
asr_temps_with(t, f, e) ==
    IF t.raised \/ Falsy(t.val) THEN {}
    ELSE IF convert_to_wav(f) = f THEN {}
    ELSE IF ~f.ok \/ e.read = "fail" THEN {ConvertedPath}
    ELSE {}

asr_temps(f, e) == asr_temps_with(get_baidu_access_token(e.tok), f, e)

\* asr_recognize_from_numpy deletes its own file in a finally block; what
\* stays is what its asr_recognize call left.
numpy_temps(audio_data, sample_rate, e) ==
    IF ~sf_write_ok(audio_data, sample_rate) THEN {}
    ELSE asr_temps(AudioFile(NumpyPath, ".wav", sample_rate.v, 1, TRUE), e)

\* --------------------------------------------------------- chat_service.py

ChatApiFailed == "API request failed, please try again later"
ChatException == "Error occurred while sending request, please check network connection"

\* The JSON object of a chat response, as far as its reply key goes.
ChatBody(h, r) == [hasReply |-> h, reply |-> r]

\* What the chat endpoint does: kind is "exception" (requests.post raises),
\* "non200", "nonjson" (200, and response.json() raises) or "json" (200 with
\* the JSON object body).
ChatEnv(k, b) == [kind |-> k, body |-> b]

\* The whole request runs inside try/except Exception; a 200 response is
\* returned as parsed.
send_chat_request(message, history, persona, c) ==
    LET e == <<[call |-> "chat", message |-> message, history |-> history,
                lora_path |-> persona.lora_path, prompt_choice |-> persona.prompt_choice,
                promptFormat_choice |-> persona.promptFormat_choice]>> IN
    IF c.kind = "json" THEN Ret(c.body, e)
    ELSE IF c.kind = "non200" THEN Ret(ChatBody(TRUE, ChatApiFailed), e)
    ELSE Ret(ChatBody(TRUE, ChatException), e)

\* ----------------------------------------------- audio_service.py: synthesis

DEFAULT_VOICE_SPEED == 5
DEFAULT_VOICE_PITCH == 5
DEFAULT_VOICE_VOLUME == 5
DEFAULT_VOICE_PERSON == 0

\* The keyword arguments of tts_synthesize.  speed and pitch are in tenths
\* (1.3 is 13); voice_type None is the argument left out.
TtsArgs(spd, pit, vol, per, engine, language, voice_type, speed, pitch) ==
    [spd |-> spd, pit |-> pit, vol |-> vol, per |-> per, tts_engine |-> engine,
     language |-> language, voice_type |-> voice_type, speed |-> speed, pitch |-> pitch]

\* tts_synthesize(text, language=..., tts_engine=...) with the other defaults
DefaultTtsArgs(engine, language) ==
    TtsArgs(DEFAULT_VOICE_SPEED, DEFAULT_VOICE_PITCH, DEFAULT_VOICE_VOLUME,
            DEFAULT_VOICE_PERSON, engine, language, None, 10, 10)

BaiduTtsPath == "/tmp/tts_synthesize.mp3"
VolcanoStaticDir == "/data/LLM-SFT/CCYTest/XAI_MBTI/static"
VolcanoTtsPath(now) == VolcanoStaticDir \o "/tts_output_" \o now \o ".mp3"

\* What the world does during one synthesis.  tok: the token endpoint.
\* post: "raise" (transport exception or timeout), "non200", "json" (a JSON
\* body) or "nonjson".  ctype: "audio" when Content-Type starts with audio/.
\* code: the JSON body's code.  data and payload: the base64 text in the
\* top-level data field and in payload.audio_data: "" (empty), "b64" (valid),
\* "bad" (not base64), and for payload "absent".  write: writing the file,
\* "ok" or "fail".  mkdir: creating Volcano's output directory.  now: the
\* clock, in seconds.
TtsEnv(tok, post, ctype, code, data, payload, write, mkdir, now) ==
    [tok |-> tok, post |-> post, ctype |-> ctype, code |-> code, data |-> data,
     payload |-> payload, write |-> write, mkdir |-> mkdir, now |-> now]

\* the language code of the Baidu request
baidu_lan(language) ==
    IF language = "Chinese" THEN "zh"
    ELSE IF language = "English" THEN "en"
    ELSE IF language = "Japanese" \/ language = "French" THEN "en"
    ELSE "en"

\* the synthesis request to Baidu, after the token request
baidu_post(text, a, tk) ==
    tk.ev \o <<[call |-> "baidu_tts_post", tex |-> text, lan |-> baidu_lan(a.language),
                spd |-> a.spd, pit |-> a.pit, vol |-> a.vol, per |-> a.per]>>

\* the Baidu path once the token request gave tk
baidu_tts_with(text, a, t, tk) ==
    IF tk.raised THEN Raise(tk.ev)
    ELSE IF Falsy(tk.val) THEN Ret(None, tk.ev)
    ELSE IF t.post = "raise" THEN Raise(baidu_post(text, a, tk))
    ELSE IF t.ctype = "audio"
         THEN IF t.write = "ok" THEN Ret(BaiduTtsPath, baidu_post(text, a, tk))
              ELSE Raise(baidu_post(text, a, tk))
    ELSE Ret(None, baidu_post(text, a, tk))

\* The Baidu path of tts_synthesize: nothing here is inside a try.
baidu_tts(text, a, t) == baidu_tts_with(text, a, t, get_baidu_access_token(t.tok))

\* the language code with Chinese as "cn", which the Chinese branch of
\* volcano_tts_synthesize does not recognise
volcano_lang_code_cn(language) ==
    IF language = "Chinese" THEN "cn"
    ELSE IF language = "English" THEN "en"
    ELSE IF language = "Japanese" THEN "ja"
    ELSE "en"

\* the language code of the Volcano request
volcano_lang_code(language) ==
    IF language = "Chinese" THEN "zh"
    ELSE IF language = "English" THEN "en"
    ELSE IF language = "Japanese" THEN "ja"
    ELSE "en"

\* the voice of the Volcano request when none is passed
volcano_voice(language, voice_type) ==
    IF voice_type # None THEN voice_type
    ELSE IF language = "English" THEN "BV702_streaming"
    ELSE "BV700_streaming"

\* base64.b64decode raises binascii.Error, a ValueError, on text that is not
\* base64.
b64_ok(x) == x = "b64"

\* The response handling of volcano_tts_synthesize, all of it inside
\* try/except Exception.  The inner `except ValueError` catches a body that
\* is not JSON and also a failed base64 decode; it then saves the raw body
\* when the content type is audio.
volcano_response(t) ==
    LET path == VolcanoTtsPath(t.now)
        saved == IF t.write = "ok" THEN path ELSE None
        raw == IF t.ctype = "audio" THEN saved ELSE None
    IN  IF t.post = "raise" THEN None
        ELSE IF t.post = "non200" THEN None
        ELSE IF t.post = "nonjson" THEN raw
        ELSE IF ~(t.code = 0 \/ t.code = 3000) THEN None
        ELSE IF t.data # ""
             THEN IF b64_ok(t.data) THEN saved ELSE raw
        ELSE IF t.payload \in {"absent", ""} THEN None
        ELSE IF b64_ok(t.payload) THEN saved ELSE raw

\* what a file written from a response holds: the bytes decoded from the
\* base64 text, or the body as received, which is audio unless it is JSON
DecodedBytes == "<decoded audio>"
AudioBody == "<audio body>"
JsonBody == "<JSON body>"
response_content(t) == IF t.post = "json" THEN JsonBody ELSE AudioBody

\* What the file at the path volcano_response returns holds, None when it
\* returns no path: f.write(audio_data) in the two base64 branches,
\* f.write(response.content) in the `except ValueError` branch.
volcano_written(t) ==
    LET saved == IF t.write = "ok" THEN DecodedBytes ELSE None
        raw == IF t.ctype = "audio" /\ t.write = "ok" THEN response_content(t) ELSE None
    IN  IF t.post = "raise" THEN None
        ELSE IF t.post = "non200" THEN None
        ELSE IF t.post = "nonjson" THEN raw
        ELSE IF ~(t.code = 0 \/ t.code = 3000) THEN None
        ELSE IF t.data # ""
             THEN IF b64_ok(t.data) THEN saved ELSE raw
        ELSE IF t.payload \in {"absent", ""} THEN None
        ELSE IF b64_ok(t.payload) THEN saved ELSE raw

\* What the file at the path tts_synthesize returned holds, None when it
\* returned no path: r is what the call gave.  Baidu's file is written from
\* response.content of a response whose content type is audio.
tts_written(a, t, r) ==
    IF r.raised \/ r.val = None THEN None
    ELSE IF r.val = BaiduTtsPath THEN AudioBody
    ELSE volcano_written(t)

\* the Baidu arguments volcano_tts_synthesize uses for Chinese
volcano_chinese_args(a) ==
    TtsArgs((a.speed * 5) \div 10, (a.pitch * 5) \div 10, 15, 0, "baidu", "Chinese",
            None, 10, 10)

volcano_tts_synthesize(text, a, t) ==
    IF Falsy(text) \/ strip(text) = "" THEN Ret(None, <<>>)
    ELSE IF volcano_lang_code(a.language) = "zh"
         THEN baidu_tts(text, volcano_chinese_args(a), t)
    ELSE IF t.mkdir = "fail" THEN Raise(<<>>)
    ELSE Ret(volcano_response(t),
             <<[call |-> "volcano_post", text |-> strip(text),
                language |-> volcano_lang_code(a.language),
                voice_type |-> volcano_voice(a.language, a.voice_type),
                speed |-> a.speed, pitch |-> a.pitch]>>)

tts_synthesize(text, a, t) ==
    IF a.tts_engine = "volcano" THEN volcano_tts_synthesize(text, a, t)
    ELSE baidu_tts(text, a, t)

\* ------------------------------------------------------ app.py: the handlers

\* The audio argument of a handler: nothing, a file path, a recording pair
\* (sample rate first, as Gradio passes it), or any other object.
NoAudio == [kind |-> "none"]
PathAudio(isfile, f) == [kind |-> "path", isfile |-> isfile, file |-> f]
PairAudio(first, second) == [kind |-> "tuple", pair |-> <<first, second>>]
OtherAudio == [kind |-> "other"]

\* the model, prompt and format selectors, passed unchanged to the chat request
Persona(lora_path, prompt_choice, promptFormat_choice) ==
    [lora_path |-> lora_path, prompt_choice |-> prompt_choice,
     promptFormat_choice |-> promptFormat_choice]

\* What the world does during one handler call: the recognition (asr), the
\* chat request (chat), the synthesis (tts), shutil.copy of the recording
\* (copy: "ok", "fail_temp" for the copy to the temporary file, "fail_static"
\* for the copy to static/), shutil.copy2 of the reply audio (copy2), decoding
\* the reply audio in handle_upload (decode), and the clock (now).
HandlerEnv(asr, chat, tts, copy, copy2, decode, now) ==
    [asr |-> asr, chat |-> chat, tts |-> tts, copy |-> copy, copy2 |-> copy2,
     decode |-> decode, now |-> now]

\* f"<audio src='{src}' controls style='display:none;'></audio>"
AudioTag(src) == "<audio src='" \o src \o "' controls style='display:none;'></audio>"
EmptyAudioTag == "<audio controls style='display:none;'></audio>"

TempChatPath == "/tmp/handle_chat.wav"
\* the saved recording under a name without the timestamp
InputAudioPathFixed(now) == "static/audio_input.wav"

InputAudioPath(now) == "static/audio_input_" \o now \o ".wav"

\* the directory of app.py, joined with "static"; the application runs in
\* the directory volcano_tts_synthesize writes under
AppStaticDir == "/data/LLM-SFT/CCYTest/XAI_MBTI/static"

NoReplyDefault == "Sorry, the server did not return a valid reply"

\* error_messages of handle_chat
ChatErrorMessages ==
    {AsrFailed, AsrRequestFailed, AsrTimeout, AsrNetwork, AsrConversion, AsrRead,
     AsrNumpy, AsrNoToken}

\* the failure strings handle_upload compares the transcript with
UploadErrorMessages == {AsrFailed, AsrRequestFailed, AsrNoToken}

\* No client call: the value of a stage the handler did not reach.
NotCalled == [called |-> FALSE, raised |-> FALSE, val |-> None, ev |-> <<>>]
Called(r) == [called |-> TRUE, raised |-> r.raised, val |-> r.val, ev |-> r.ev]

\* the chat request that gave c, made while the handler's history_for_display
\* was display
Requested(c, display) ==
    [called |-> TRUE, raised |-> c.raised, val |-> c.val, ev |-> c.ev,
     display |-> display]

\* the call of tts_synthesize(text, **a) that gave t
Synthesized(t, text, a) ==
    [called |-> TRUE, raised |-> t.raised, val |-> t.val, ev |-> t.ev, text |-> text,
     args |-> a]

\* What a handler call did: whether it raised, the values it returned (out),
\* the outbound calls it made (ev), and what each client gave it.
Returned(out, ev, asr, chat, tts) ==
    [raised |-> FALSE, out |-> out, ev |-> ev, asr |-> asr, chat |-> chat, tts |-> tts]
Raised(ev, asr, chat, tts) ==
    [raised |-> TRUE, out |-> <<>>, ev |-> ev, asr |-> asr, chat |-> chat, tts |-> tts]

\* the history taken from the chat_history State in the place of the
\* Display History the handler was given
stored_session(history) == chat_history

\* [(h[0], h[1]) for h in history if h[1] is not None]
with_reply(history) == SelectSeq(history, LAMBDA h : h[2] # None)

\* response.get("reply", default)
reply_of(response) == IF response.hasReply THEN response.reply ELSE NoReplyDefault

\* The language request handle_chat appends to the message.  The Japanese
\* literal is romanised here.
chat_language_request(reply_language_choice) ==
    IF reply_language_choice = "Chinese" THEN " "
    ELSE IF reply_language_choice = "English" THEN " Please answer in English"
    ELSE IF reply_language_choice = "Japanese" THEN " Nihongo de kotaete kudasai"
    ELSE " Please answer in English"

\* The language request handle_upload appends to the message.  The Chinese,
\* Japanese and French literals are romanised here.
upload_language_request(reply_language_choice) ==
    IF reply_language_choice = "Chinese" THEN " Qing yong Zhongwen huida"
    ELSE IF reply_language_choice = "English" THEN " Please answer in English"
    ELSE IF reply_language_choice = "Japanese" THEN " Nihongo de kotaete kudasai"
    ELSE IF reply_language_choice = "French" THEN " Veuillez repondre en francais"
    ELSE " Please answer in English"

SoftFemale == "Soft Female Voice - Cancan (Normal)"
EnergeticFemale == "Energetic Female Voice - Cancan (Fast)"
ProfessionalForeign == "Professional Foreign Voice - Stefan (Normal)"
ExpressiveForeign == "Expressive Foreign Voice - Stefan (Fast)"

\* the arguments handle_chat gives tts_synthesize for a style and a language
chat_tts_args(tts_choice, language) ==
    IF language = "Chinese"
    THEN IF tts_choice = SoftFemale
         THEN TtsArgs(5, 5, DEFAULT_VOICE_VOLUME, 0, "baidu", language, None, 10, 10)
         ELSE IF tts_choice = EnergeticFemale
         THEN TtsArgs(7, 6, DEFAULT_VOICE_VOLUME, 0, "baidu", language, None, 10, 10)
         ELSE IF tts_choice = ProfessionalForeign
         THEN TtsArgs(5, 5, DEFAULT_VOICE_VOLUME, 1, "baidu", language, None, 10, 10)
         ELSE IF tts_choice = ExpressiveForeign
         THEN TtsArgs(7, 6, DEFAULT_VOICE_VOLUME, 1, "baidu", language, None, 10, 10)
         ELSE TtsArgs(5, 5, DEFAULT_VOICE_VOLUME, 0, "baidu", language, None, 10, 10)
    ELSE LET v(voice_type, speed, pitch) ==
                 TtsArgs(DEFAULT_VOICE_SPEED, DEFAULT_VOICE_PITCH, DEFAULT_VOICE_VOLUME,
                         DEFAULT_VOICE_PERSON, "volcano", language, voice_type, speed, pitch)
         IN  IF tts_choice = SoftFemale THEN v("BV700_streaming", 10, 10)
             ELSE IF tts_choice = EnergeticFemale THEN v("BV700_streaming", 13, 12)
             ELSE IF tts_choice = ProfessionalForeign THEN v("BV702_streaming", 10, 10)
             ELSE IF tts_choice = ExpressiveForeign THEN v("BV702_streaming", 13, 12)
             ELSE v("BV700_streaming", 10, 10)

\* the arguments handle_upload gives tts_synthesize for a style and a language
upload_tts_args(tts_choice, language) ==
    IF tts_choice = "Standard Voice" THEN DefaultTtsArgs("baidu", language)
    ELSE IF tts_choice = "Gentle Female Voice"
    THEN TtsArgs(4, 6, DEFAULT_VOICE_VOLUME, 4, "baidu", language, None, 10, 10)
    ELSE IF tts_choice = "Energetic Male Voice"
    THEN TtsArgs(6, 6, DEFAULT_VOICE_VOLUME, 3, "baidu", language, None, 10, 10)
    ELSE IF tts_choice = "Volcano Engine TTS" THEN DefaultTtsArgs("volcano", language)
    ELSE DefaultTtsArgs("baidu", language)

\* f"Error processing recording: {str(e)}", the exception text left abstract
ErrorProcessing == "Error processing recording: <exception>"

\* an early return that writes row over the last row of the history
chat_stop_over(history, row, ev, asr) ==
    [done |-> TRUE,
     ret |-> Returned(<<[history EXCEPT ![Len(history)] = row], history, None, "">>, ev,
                      asr, NotCalled, NotCalled)]

\* an early return of handle_chat that shows row and starts no later stage
chat_stop(history, row, ev, asr) ==
    [done |-> TRUE,
     ret |-> Returned(<<Append(history, row), history, None, "">>, ev, asr, NotCalled,
                      NotCalled)]

\* handle_chat going on to the reply with this message
chat_go(message, audio_path, ev, asr) ==
    [done |-> FALSE, message |-> message, audio_path |-> audio_path, ev |-> ev,
     asr |-> asr]

\* handle_chat, lines 229-248: the recognition gave r
chat_transcribed(history, audio_path, r) ==
    IF r.raised
    THEN chat_stop(history, <<AudioTag("/" \o audio_path), ErrorProcessing>>, r.ev,
                   Called(r))
    ELSE IF Falsy(r.val) \/ r.val \in ChatErrorMessages
    THEN chat_stop(history,
                   <<AudioTag("/" \o audio_path),
                     (IF Falsy(r.val) THEN "Speech recognition failed" ELSE r.val)
                         \o ", please try again">>,
                   r.ev, Called(r))
    ELSE chat_go(r.val, audio_path, r.ev, Called(r))

\* the temporary copy handle_chat makes of its audio
chat_temp_audio(audio) ==
    IF audio.kind = "path"
    THEN AudioFile(TempChatPath, ".wav", audio.file.rate, audio.file.channels,
                   audio.file.ok)
    ELSE AudioFile(TempChatPath, ".wav", audio.pair[1].v, 1, TRUE)

\* handle_chat, lines 189-254: a turn that came with audio and no message.
\* asr_language_choice is None when the event passes none.
handle_chat_audio(history, reply_language_choice, asr_language_choice, audio, env) ==
    IF audio.kind = "path" /\ ~audio.isfile
    THEN chat_stop(history, <<EmptyAudioTag, "Invalid audio file">>, <<>>, NotCalled)
    ELSE IF audio.kind \notin {"path", "tuple"}
    THEN chat_stop(history, <<EmptyAudioTag, "Recording format error, please try again">>,
                   <<>>, NotCalled)
    ELSE IF \/ audio.kind = "path" /\ env.copy = "fail_temp"
            \/ audio.kind = "tuple" /\ ~sf_write_ok(audio.pair[2], audio.pair[1])
    THEN chat_stop(history, <<EmptyAudioTag, ErrorProcessing>>, <<>>, NotCalled)
    ELSE IF env.copy = "fail_static"
    THEN chat_stop(history, <<AudioTag("/" \o InputAudioPath(env.now)), ErrorProcessing>>,
                   <<>>, NotCalled)
    ELSE chat_transcribed(history, InputAudioPath(env.now),
                          asr_recognize(chat_temp_audio(audio),
                                        IF Falsy(asr_language_choice)
                                        THEN reply_language_choice
                                        ELSE asr_language_choice,
                                        env.asr))

\* the entry handle_chat appends to its copy of the history before the chat
\* request
pending_entry(message, audio, audio_path) ==
    IF audio.kind # "none" /\ audio_path # None
    THEN <<message \o " " \o AudioTag("/" \o audio_path), None>>
    ELSE <<message, None>>

\* history_for_display.append(row) in the place of the assignment
append_last(history_for_display, row) == Append(history_for_display, row)

\* history_for_display[-1] = row
replace_last(history_for_display, row) ==
    [history_for_display EXCEPT ![Len(history_for_display)] = row]

\* the reply audio returned where the synthesis left it
served_audio_in_place(audio_path, env) ==
    IF Falsy(audio_path) THEN None ELSE audio_path

\* handle_chat, lines 357-388: the reply audio copied into the static
\* directory of the application, or no audio
served_audio(audio_path, env) ==
    IF Falsy(audio_path) THEN None
    ELSE IF audio_path = AppStaticDir \o "/" \o basename(audio_path) \/ env.copy2 = "ok"
    THEN AppStaticDir \o "/" \o basename(audio_path)
    ELSE None

\* handle_chat, lines 351-388: the synthesis gave t
chat_finish(message, history, pending, ev, asr, env, c, a, t) ==
    IF t.raised
    THEN Raised(ev \o c.ev \o t.ev, asr, Requested(c, Append(history, pending)), Synthesized(t, reply_of(c.val), a))
    ELSE Returned(<<replace_last(Append(history, pending), <<message, reply_of(c.val)>>),
                    Append(with_reply(history), <<message, reply_of(c.val)>>),
                    served_audio(t.val, env), "">>,
                  ev \o c.ev \o t.ev, asr, Requested(c, Append(history, pending)),
                  Synthesized(t, reply_of(c.val), a))

\* handle_chat, lines 289-349: the chat request gave c.  len(reply) raises
\* TypeError on a reply that is None.
chat_synthesize(message, history, pending, tts_choice, reply_language_choice, ev, asr, env, c) ==
    IF reply_of(c.val) = None THEN Raised(ev \o c.ev, asr, Requested(c, Append(history, pending)), NotCalled)
    ELSE chat_finish(message, history, pending, ev, asr, env, c,
                     chat_tts_args(tts_choice, reply_language_choice),
                     tts_synthesize(reply_of(c.val),
                                    chat_tts_args(tts_choice, reply_language_choice),
                                    env.tts))

\* handle_chat, lines 256-388: the turn once its message is known.  audio_path
\* is the saved recording (None without one), ev and asr what the
\* transcription stage did.
handle_chat_reply(message, history, persona, tts_choice, reply_language_choice, audio, audio_path, ev, asr, env) ==
    IF Falsy(message) \/ strip(message) = ""
    THEN Returned(<<history, history, None, "">>, ev, asr, NotCalled, NotCalled)
    ELSE chat_synthesize(message, history, pending_entry(message, audio, audio_path),
                         tts_choice, reply_language_choice, ev, asr, env,
                         send_chat_request(
                             message \o chat_language_request(reply_language_choice),
                             with_reply(history), persona, env.chat))

\* handle_chat after its first stage a
chat_continue(a, history, persona, tts_choice, reply_language_choice, audio, env) ==
    IF a.done THEN a.ret
    ELSE handle_chat_reply(a.message, history, persona, tts_choice,
                           reply_language_choice, audio, a.audio_path, a.ev, a.asr, env)

handle_chat(message, history, persona, tts_choice, reply_language_choice, asr_language_choice, audio, env) ==
    chat_continue(IF message # None THEN chat_go(message, None, <<>>, NotCalled)
                  ELSE IF audio.kind # "none"
                  THEN handle_chat_audio(history, reply_language_choice,
                                         asr_language_choice, audio, env)
                  ELSE chat_go(None, None, <<>>, NotCalled),
                  history, persona, tts_choice, reply_language_choice, audio, env)

\* handle_audio returning what handle_chat gave it, h; r is the recognition
\* of a recording pair
audio_finish(audio, r, h) ==
    IF h.raised
    THEN Raised(r.ev \o h.ev, IF audio.kind = "tuple" THEN Called(r) ELSE h.asr, h.chat,
                h.tts)
    ELSE Returned(<<h.out[1], h.out[2], h.out[3], "">>, r.ev \o h.ev,
                  IF audio.kind = "tuple" THEN Called(r) ELSE h.asr, h.chat, h.tts)

\* handle_audio with asr_result r: the recognition of a recording pair, or
\* None
handle_audio_with(audio, history, persona, tts_choice, reply_language_choice, asr_language_choice, env, r) ==
    audio_finish(audio, r,
                 handle_chat(r.val, history, persona, tts_choice, reply_language_choice,
                             asr_language_choice,
                             IF audio.kind = "tuple" THEN NoAudio ELSE audio, env))

\* A recording pair is unpacked as `audio_data, sample_rate = audio` and
\* recognised here; its result goes to handle_chat as the message.
handle_audio(audio, history, persona, tts_choice, reply_language_choice, asr_language_choice, env) ==
    handle_audio_with(audio, history, persona, tts_choice, reply_language_choice,
                      asr_language_choice, env,
                      IF audio.kind = "tuple"
                      THEN asr_recognize_from_numpy(audio.pair[1], audio.pair[2],
                                                    asr_language_choice, env.asr)
                      ELSE Ret(None, <<>>))

\* the reply audio handle_upload returns: the decoded samples of the file,
\* or (16000, zeros) when there is no file or it cannot be decoded
DecodedAudio(path) == "<samples of " \o path \o ">"
SilentAudio == "<16000 Hz silence>"

\* handle_upload, lines 465-513: the synthesis gave t
upload_finish(message, history, env, r, c, a, t) ==
    IF t.raised
    THEN Raised(r.ev \o c.ev \o t.ev, Called(r), Requested(c, Append(history, <<message, None>>)),
                Synthesized(t, reply_of(c.val), a))
    ELSE Returned(<<replace_last(Append(history, <<message, None>>),
                                 <<message, reply_of(c.val)>>),
                    Append(with_reply(history), <<message, reply_of(c.val)>>),
                    IF ~Falsy(t.val) /\ env.decode = "ok" THEN DecodedAudio(t.val)
                    ELSE SilentAudio,
                    "">>,
                  r.ev \o c.ev \o t.ev, Called(r), Requested(c, Append(history, <<message, None>>)),
                  Synthesized(t, reply_of(c.val), a))

\* handle_upload, lines 445-463: the chat request gave c
upload_synthesize(message, history, tts_choice, reply_language_choice, env, r, c) ==
    upload_finish(message, history, env, r, c,
                  upload_tts_args(tts_choice, reply_language_choice),
                  tts_synthesize(reply_of(c.val),
                                 upload_tts_args(tts_choice, reply_language_choice),
                                 env.tts))

\* handle_upload, lines 418-443: the recognition gave r
upload_transcribed(file, history, persona, tts_choice, reply_language_choice, env, r) ==
    IF r.raised THEN Raised(r.ev, Called(r), NotCalled, NotCalled)
    ELSE IF Falsy(r.val) \/ r.val \in UploadErrorMessages
    THEN Returned(<<Append(history,
                           <<AudioTag(file.file.path),
                             "Speech recognition failed, please try again">>),
                    history>>,
                  r.ev, Called(r), NotCalled, NotCalled)
    ELSE upload_synthesize(r.val, history, tts_choice, reply_language_choice, env, r,
                           send_chat_request(
                               r.val \o upload_language_request(reply_language_choice),
                               with_reply(history), persona, env.chat))

handle_upload(file, history, persona, tts_choice, reply_language_choice, asr_language_choice, env) ==
    IF file.kind = "none"
    THEN Returned(<<history, history>>, <<>>, NotCalled, NotCalled, NotCalled)
    ELSE upload_transcribed(file, history, persona, tts_choice, reply_language_choice,
                            env,
                            asr_recognize(file.file, asr_language_choice, env.asr))

\* The temporary files a handle_chat call leaves behind.  Its copy of the
\* audio is created before it is written and deleted right after
\* asr_recognize returns (line 229), so it stays when the write, the copy to
\* static or the recognition raises.
handle_chat_temps(message, audio, env) ==
    IF message # None \/ audio.kind = "none" THEN {}
    ELSE IF audio.kind = "path" /\ ~audio.isfile THEN {}
    ELSE IF audio.kind \notin {"path", "tuple"} THEN {}
    ELSE IF \/ audio.kind = "path" /\ env.copy = "fail_temp"
            \/ audio.kind = "tuple" /\ ~sf_write_ok(audio.pair[2], audio.pair[1])
            \/ env.copy = "fail_static"
            \/ env.asr.tok = "raise"
    THEN {TempChatPath}
    ELSE asr_temps(chat_temp_audio(audio), env.asr)

handle_audio_temps(audio, env) ==
    IF audio.kind = "tuple" THEN numpy_temps(audio.pair[1], audio.pair[2], env.asr)
    ELSE handle_chat_temps(None, audio, env)

handle_upload_temps(file, env) ==
    IF file.kind = "none" THEN {} ELSE asr_temps(file.file, env.asr)

\* ------------------------------------------------------------------ inputs

Now == "1700000000"

Messages == {"hi", " "}
Transcripts == {"hi"}
ReplyLanguages == {"Chinese", "English", "Japanese"}
\* the recogniser language radio stays at its default in a session; both of
\* its values are exercised by the direct calls of asr_recognize
AsrLanguages == {"English"}
ChatStyles == {SoftFemale, ExpressiveForeign}
\* upload_btn.upload passes the same tts_choice radio, whose values are none
\* of the style names handle_upload compares with
UploadStyles == {SoftFemale, ExpressiveForeign}
Personas == {Persona("estj", "assist_estj", "ordinary")}

UploadedPath == "/tmp/gradio/upload"
Wav16kMono == AudioFile(UploadedPath, ".wav", 16000, 1, TRUE)
Mp3Stereo == AudioFile(UploadedPath, ".mp3", 44100, 2, TRUE)
Undecodable == AudioFile(UploadedPath, ".mp3", 0, 0, FALSE)

\* what audio_input gives handle_audio
AudioInputs ==
    {NoAudio, PathAudio(TRUE, Wav16kMono), PathAudio(TRUE, Mp3Stereo),
     PathAudio(FALSE, Wav16kMono), PairAudio(RateOf(44100), Samples)}

\* what upload_btn gives handle_upload
UploadInputs == {NoAudio, PathAudio(TRUE, Wav16kMono), PathAudio(TRUE, Undecodable)}

AsrOk == {AsrEnv("ok", "ok", "ok", x) : x \in Transcripts}
AsrFailing ==
    {AsrEnv("raise", "ok", "ok", ""), AsrEnv("ok", "ok", "err_no", ""),
     AsrEnv("ok", "ok", "timeout", "")}

ChatOk == ChatEnv("json", ChatBody(TRUE, "yo"))
ChatEnvs ==
    {ChatOk, ChatEnv("json", ChatBody(TRUE, "")), ChatEnv("json", ChatBody(TRUE, None)),
     ChatEnv("json", ChatBody(FALSE, "")), ChatEnv("exception", ChatBody(FALSE, ""))}

\* a synthesis that succeeds with either provider
TtsOk == TtsEnv("ok", "json", "audio", 0, "b64", "absent", "ok", "ok", Now)
TtsEnvs ==
    {TtsOk,
     TtsEnv("raise", "raise", "other", 0, "b64", "absent", "ok", "ok", Now),
     TtsEnv("non200", "non200", "other", 0, "b64", "absent", "ok", "ok", Now),
     TtsEnv("ok", "json", "other", 3001, "", "absent", "ok", "fail", Now)}

\* The worlds of one handler call: a failing recognition with the later
\* stages at their defaults, or a working recognition with every chat and
\* synthesis outcome, or a failing file copy with everything else working.
HandlerEnvs ==
    {HandlerEnv(a, ChatOk, TtsOk, "ok", "ok", "ok", Now) : a \in AsrFailing}
    \cup {HandlerEnv(a, c, t, "ok", "ok", "ok", Now) :
              a \in AsrOk, c \in ChatEnvs, t \in TtsEnvs}
    \cup {HandlerEnv(a, ChatOk, TtsOk, k[1], k[2], k[3], Now) :
              a \in AsrOk,
              k \in {<<"fail_temp", "ok", "ok">>, <<"fail_static", "ok", "ok">>,
                     <<"ok", "fail", "ok">>, <<"ok", "ok", "fail">>}}

\* ----------------------------------------------------------------- actions

NoTurn == [op |-> "none"]

\* What the turn records of a handler call: the operation, the Display
\* History it was given, the reply language, the temporary files it left
\* behind, what the session recorded last before the event (nothing, or a
\* clear), and what the call did.
TurnOf(op, history, language, temps, r) ==
    [op |-> op, history |-> history, language |-> language, temps |-> temps,
     before |-> turn,
     raised |-> r.raised, out |-> r.out, ev |-> r.ev, asr |-> r.asr, chat |-> r.chat,
     tts |-> r.tts]

Init ==
    /\ chatbot = <<>>
    /\ chat_history = <<>>
    /\ pc = "idle"
    /\ turn = NoTurn
    /\ call = NoTurn

\* submit_btn.click and msg.submit: handle_chat on the text box
Submit ==
    /\ pc = "idle"
    /\ Len(chatbot) < MaxTurns
    /\ \E message \in Messages, persona \in Personas, tts_choice \in ChatStyles,
          language \in ReplyLanguages, env \in HandlerEnvs :
           turn' = TurnOf("handle_chat", chatbot, language,
                          handle_chat_temps(message, NoAudio, env),
                          handle_chat(message, chatbot, persona, tts_choice, language,
                                      None, NoAudio, env))
    /\ pc' = "returned"
    /\ UNCHANGED <<chatbot, chat_history, call>>

\* audio_input.change: handle_audio on the recorder
AudioChange ==
    /\ pc = "idle"
    /\ Len(chatbot) < MaxTurns
    /\ \E audio \in AudioInputs, persona \in Personas, tts_choice \in ChatStyles,
          language \in ReplyLanguages, asr_language \in AsrLanguages,
          env \in HandlerEnvs :
           turn' = TurnOf("handle_audio", chatbot, language,
                          handle_audio_temps(audio, env),
                          handle_audio(audio, chatbot, persona, tts_choice, language,
                                       asr_language, env))
    /\ pc' = "returned"
    /\ UNCHANGED <<chatbot, chat_history, call>>

\* upload_btn.upload: handle_upload on the uploaded file
Upload ==
    /\ pc = "idle"
    /\ Len(chatbot) < MaxTurns
    /\ \E file \in UploadInputs, persona \in Personas, tts_choice \in UploadStyles,
          language \in ReplyLanguages, asr_language \in AsrLanguages,
          env \in HandlerEnvs :
           turn' = TurnOf("handle_upload", chatbot, language,
                          handle_upload_temps(file, env),
                          handle_upload(file, chatbot, persona, tts_choice, language,
                                        asr_language, env))
    /\ pc' = "returned"
    /\ UNCHANGED <<chatbot, chat_history, call>>

\* Gradio sets the output components [chatbot, chat_history, audio_output,
\* msg] from the values the handler returned.  A handler that raised, or that
\* returned another number of values than the event has outputs, sets none.
Apply ==
    /\ pc = "returned"
    /\ IF turn.raised \/ Len(turn.out) # 4
       THEN UNCHANGED <<chatbot, chat_history>>
       ELSE /\ chatbot' = turn.out[1]
            /\ chat_history' = turn.out[2]
    /\ pc' = "idle"
    /\ turn' = NoTurn
    /\ UNCHANGED call

\* What the turn records of a clear: how many rows each history held
Cleared(rows, turns) == [op |-> "clear", rows |-> rows, turns |-> turns]

\* a clear that empties the Display History only
ClearDisplayOnly ==
    /\ pc = "idle"
    /\ chatbot' = <<>>
    /\ turn' = Cleared(Len(chatbot), Len(chat_history))
    /\ UNCHANGED <<chat_history, pc, call>>

\* clear_btn.click: lambda: ([], []) on outputs [chatbot, chat_history]
Clear ==
    /\ pc = "idle"
    /\ chatbot' = <<>>
    /\ chat_history' = <<>>
    /\ turn' = Cleared(Len(chatbot), Len(chat_history))
    /\ UNCHANGED <<pc, call>>

Next == Submit \/ AudioChange \/ Upload \/ Apply \/ Clear

Spec == Init /\ [][Next]_vars

\* ------------------------------------- direct calls of tts_synthesize

TtsTexts == {"yo", " yo", "", " "}
TtsLanguages == {"Chinese", "English", "Japanese", "French"}

\* the keyword arguments of the direct calls: either engine, every language,
\* the default voice and a fast one
DirectTtsArgs ==
    {TtsArgs(v[1], v[2], DEFAULT_VOICE_VOLUME, v[3], engine, language, v[4], v[5], v[6]) :
         engine \in {"baidu", "volcano"}, language \in TtsLanguages,
         v \in {<<DEFAULT_VOICE_SPEED, DEFAULT_VOICE_PITCH, DEFAULT_VOICE_PERSON, None, 10,
                  10>>,
                <<7, 6, 1, "BV702_streaming", 13, 12>>}}

\* Every world of one synthesis.  The fields of a JSON body vary only when
\* the response is JSON; a response that is not 200, and a request that
\* raises, carry no audio.
AllTtsEnvs ==
    {TtsEnv(tok, "json", ctype, code, data, payload, write, mkdir, Now) :
         tok \in TokenOutcomes, ctype \in {"audio", "other"}, code \in {0, 3000, 3001},
         data \in {"", "b64", "bad"}, payload \in {"absent", "", "b64", "bad"},
         write \in {"ok", "fail"}, mkdir \in {"ok", "fail"}}
    \cup {TtsEnv(tok, "nonjson", ctype, 0, "", "absent", write, mkdir, Now) :
              tok \in TokenOutcomes, ctype \in {"audio", "other"},
              write \in {"ok", "fail"}, mkdir \in {"ok", "fail"}}
    \cup {TtsEnv(tok, post, "other", 0, "", "absent", write, mkdir, Now) :
              tok \in TokenOutcomes, post \in {"raise", "non200"},
              write \in {"ok", "fail"}, mkdir \in {"ok", "fail"}}

InitTts ==
    /\ chatbot = <<>>
    /\ chat_history = <<>>
    /\ pc = "idle"
    /\ turn = NoTurn
    /\ \E text \in TtsTexts, a \in DirectTtsArgs :
           call = [op |-> "tts_synthesize", done |-> FALSE, text |-> text, args |-> a]

\* what a direct call records: its arguments, the world, its result r and
\* what the returned file holds
TtsDone(text, a, t, r) ==
    [op |-> "tts_synthesize", done |-> TRUE, text |-> text, args |-> a, env |-> t,
     result |-> r, file |-> tts_written(a, t, r)]

\* AudioService.tts_synthesize(text, **args), as test_services.py calls it
TtsCall ==
    /\ call.op = "tts_synthesize"
    /\ ~call.done
    /\ \E t \in AllTtsEnvs :
           call' = TtsDone(call.text, call.args, t,
                           tts_synthesize(call.text, call.args, t))
    /\ UNCHANGED <<chatbot, chat_history, pc, turn>>

NextTts == TtsCall

SpecTts == InitTts /\ [][NextTts]_vars

\* ------------------------------------ direct calls of send_chat_request

ChatMessages == {"hi", "", "hi Please answer in English"}
ChatHistories == {<<>>, <<<<"hi", "yo">>>>, <<<<"hi", "yo">>, <<"hi", "">>>>}
ChatPersonas ==
    {Persona("estj", "assist_estj", "ordinary"), Persona("infp", "assist_infp", "custom"),
     Persona("base_1", "null", "ordinary")}

\* every answer of the chat endpoint
AllChatEnvs ==
    {ChatEnv(k, ChatBody(FALSE, "")) : k \in {"exception", "non200", "nonjson"}}
    \cup {ChatEnv("json", b) :
              b \in {ChatBody(TRUE, "yo"), ChatBody(TRUE, ""), ChatBody(TRUE, " "),
                     ChatBody(TRUE, None), ChatBody(FALSE, "")}}

InitChat ==
    /\ chatbot = <<>>
    /\ chat_history = <<>>
    /\ pc = "idle"
    /\ turn = NoTurn
    /\ \E message \in ChatMessages, history \in ChatHistories, persona \in ChatPersonas :
           call = [op |-> "send_chat_request", done |-> FALSE, message |-> message,
                   history |-> history, persona |-> persona]

\* ChatService.send_chat_request(message, history, lora_path, prompt_choice,
\* promptFormat_choice)
ChatCall ==
    /\ call.op = "send_chat_request"
    /\ ~call.done
    /\ \E c \in AllChatEnvs :
           call' = [op |-> "send_chat_request", done |-> TRUE, message |-> call.message,
                    history |-> call.history, persona |-> call.persona, env |-> c,
                    result |-> send_chat_request(call.message, call.history,
                                                 call.persona, c)]
    /\ UNCHANGED <<chatbot, chat_history, pc, turn>>

NextChat == ChatCall

SpecChat == InitChat /\ [][NextChat]_vars

\* ------------------------------------------------- properties of the turns

\* the recognition of the turn gave the empty result or a failure string
TranscriptionFailed ==
    /\ pc = "returned"
    /\ turn.asr.called
    /\ ~turn.asr.raised
    /\ (Falsy(turn.asr.val) \/ turn.asr.val \in AsrFailureStrings)

\* the replies that ask the user to try again
RetryPrompts == {f \o ", please try again" : f \in AsrFailureStrings}

\* the replies the handlers show in place of a reply of the chat endpoint
ErrorReplies ==
    RetryPrompts
    \cup {ErrorProcessing, "Invalid audio file", "Recording format error, please try again"}

\* the handler returned the Display History it was given plus a retry row
ShowsRetryPrompt ==
    /\ ~turn.raised
    /\ Len(turn.out) >= 1
    /\ Len(turn.out[1]) = Len(turn.history) + 1
    /\ SubSeq(turn.out[1], 1, Len(turn.history)) = turn.history
    /\ turn.out[1][Len(turn.out[1])][2] \in RetryPrompts

StartsWithAudioTag(x) == Len(x) >= 6 /\ SubSeq(x, 1, 6) = "<audio"

\* a row of a completed turn: what the user said, and a reply of the chat
\* endpoint
CompletedTurn(row) ==
    /\ row[1] # None
    /\ strip(row[1]) # ""
    /\ ~StartsWithAudioTag(row[1])
    /\ row[1] \notin AsrFailureStrings
    /\ row[2] # None
    /\ row[2] \notin ErrorReplies

\* the requests of a synthesis that went to Baidu, and to Volcano
BaiduRequests(ev) == {i \in 1..Len(ev) : ev[i].call \in {"baidu_token", "baidu_tts_post"}}
VolcanoRequests(ev) == {i \in 1..Len(ev) : ev[i].call = "volcano_post"}

\* C1: whenever the recognition of a turn gives the empty result or one of
\* its failure strings, through handle_chat, handle_audio or handle_upload,
\* the turn shows a retry prompt and calls neither send_chat_request nor
\* tts_synthesize.
C1_FailedTranscriptionStopsTurn ==
    TranscriptionFailed =>
        /\ ShowsRetryPrompt
        /\ ~turn.chat.called
        /\ ~turn.tts.called

\* C2: a turn that stops at a failed transcription returns, as its Session
\* History output, the Session History as it was before the turn, also when
\* earlier turns of the session failed.
C2_FailedTurnKeepsSessionHistory ==
    (TranscriptionFailed /\ ~turn.raised /\ ~turn.chat.called) =>
        /\ Len(turn.out) >= 2
        /\ turn.out[2] = chat_history

\* C3: every row of the Session History is a completed turn: a real user
\* utterance with the reply the chat endpoint gave; no retry or error row,
\* no audio-tag placeholder row, no row whose reply is pending.
C3_SessionHistoryHoldsCompletedTurns ==
    \A i \in 1..Len(chat_history) : CompletedTurn(chat_history[i])

\* C4: the history handed to send_chat_request is exactly the Session History
\* committed before the turn, and holds no row of a failed transcription.
C4_ChatHistoryArgumentIsSessionHistory ==
    (pc = "returned" /\ turn.chat.called) =>
        /\ turn.chat.ev[1].history = chat_history
        /\ \A i \in 1..Len(turn.chat.ev[1].history) :
               turn.chat.ev[1].history[i][2] \notin ErrorReplies

\* C5: send_chat_request never raises and always returns a result whose
\* reply is a non-empty string: endpoint unreachable, non-200, or 200 with
\* any body.
C5_ChatRequestAlwaysReplies ==
    (call.op = "send_chat_request" /\ call.done) =>
        /\ ~call.result.raised
        /\ call.result.val.hasReply
        /\ call.result.val.reply # None
        /\ call.result.val.reply # ""

\* C6: the text a handler passes to tts_synthesize is always a non-empty
\* string.
C6_SynthesisTextNonEmpty ==
    (pc = "returned" /\ turn.tts.called) =>
        /\ turn.tts.text # None
        /\ turn.tts.text # ""

\* ------------------------------------------ properties of tts_synthesize

\* a finished direct call of tts_synthesize
Synthesised == call.op = "tts_synthesize" /\ call.done

\* the call takes the Baidu path
BaiduRoute == call.args.tts_engine # "volcano" \/ call.args.language = "Chinese"

\* the world of the call makes the synthesis fail: the token request fails
\* or raises, the transport raises, the status is not 200, the content is
\* not audio, the code is not a success code, the audio payload is missing,
\* or the file cannot be written
SynthesisFails ==
    IF BaiduRoute
    THEN \/ call.env.tok # "ok"
         \/ call.env.post \in {"raise", "non200"}
         \/ call.env.ctype # "audio"
         \/ call.env.write = "fail"
    ELSE \/ call.env.post \in {"raise", "non200"}
         \/ call.env.post = "nonjson" /\ call.env.ctype # "audio"
         \/ call.env.post = "json" /\ call.env.code \notin {0, 3000}
         \/ call.env.post = "json" /\ call.env.data = ""
                /\ call.env.payload \in {"absent", ""}
         \/ call.env.write = "fail"

\* C7: tts_synthesize for the language Chinese sends its requests to Baidu
\* and none to Volcano, with tts_engine "baidu" and with tts_engine
\* "volcano": whenever there is text to speak the Baidu token is requested,
\* and with a token the synthesis request goes to Baidu in Chinese.
C7_ChineseGoesToBaidu ==
    (Synthesised /\ call.args.language = "Chinese") =>
        /\ VolcanoRequests(call.result.ev) = {}
        /\ strip(call.text) # "" =>
               /\ Len(call.result.ev) >= 1
               /\ call.result.ev[1].call = "baidu_token"
               /\ call.env.tok = "ok" =>
                      /\ Len(call.result.ev) = 2
                      /\ call.result.ev[2].call = "baidu_tts_post"
                      /\ call.result.ev[2].lan = "zh"
                      /\ call.result.ev[2].tex = call.text

\* a Chinese synthesis asked of the Volcano engine whose request went to
\* Baidu
C7_VolcanoEngineChineseSentToBaidu ==
    /\ Synthesised
    /\ call.args.language = "Chinese"
    /\ call.args.tts_engine = "volcano"
    /\ Len(call.result.ev) = 2
    /\ call.result.ev[2].call = "baidu_tts_post"
    /\ call.result.val = BaiduTtsPath

\* C8: a synthesis contacts exactly one provider, chosen by the language
\* alone: a turn whose reply language is not Chinese, through any handler
\* and style, sends nothing to Baidu, and sends its text to Volcano.
C8_NonChineseGoesToVolcano ==
    (pc = "returned" /\ turn.tts.called /\ turn.language # "Chinese") =>
        /\ BaiduRequests(turn.tts.ev) = {}
        /\ (~Falsy(turn.tts.text) /\ strip(turn.tts.text) # "" /\ ~turn.tts.raised) =>
               VolcanoRequests(turn.tts.ev) # {}

\* C9: tts_synthesize with text that is empty after trimming returns None
\* and makes no request, on the Baidu path and on the Volcano path.
C9_BlankTextReturnsNoneWithoutRequest ==
    (Synthesised /\ strip(call.text) = "") =>
        /\ ~call.result.raised
        /\ call.result.val = None
        /\ call.result.ev = <<>>

\* C10: tts_synthesize never raises, and returns None whenever the
\* synthesis fails.
C10_SynthesisFailureReturnsNone ==
    Synthesised =>
        /\ ~call.result.raised
        /\ SynthesisFails => call.result.val = None

\* -------------------------------------------- properties of the later stages

\* the last element of a non-empty sequence
Last(q) == q[Len(q)]

\* the language request the handler of the turn appends
LanguageRequest ==
    IF turn.op = "handle_upload" THEN upload_language_request(turn.language)
    ELSE chat_language_request(turn.language)

\* row is the user's text of the turn, as sent to the chat endpoint without
\* the language request, with the reply the endpoint gave
CompletedRow(row) ==
    /\ row[1] \o LanguageRequest = turn.chat.ev[1].message
    /\ row[2] = reply_of(turn.chat.val)

\* C11: when the synthesis fails after the reply was obtained (it returns
\* None, or raises), the turn still completes: the handler returns,
\* (user text, reply) is the last row of the Display History output and of
\* the Session History output, and the audio output is None; in handle_chat,
\* handle_audio and handle_upload.
C11_SynthesisFailureCompletesTurn ==
    (pc = "returned" /\ turn.tts.called /\ (turn.tts.raised \/ turn.tts.val = None)) =>
        /\ ~turn.raised
        /\ Len(turn.out) = 4
        /\ Len(turn.out[1]) >= 1
        /\ CompletedRow(Last(turn.out[1]))
        /\ Len(turn.out[2]) >= 1
        /\ Last(turn.out[2]) = Last(turn.out[1])
        /\ turn.out[3] = None

\* ----------------------------------------- direct calls of asr_recognize

\* files of either extension, rate and channel count, and files no decoder
\* reads
AsrFiles ==
    {AudioFile(UploadedPath, x, r, c, TRUE) :
         x \in {".wav", ".mp3"}, r \in {16000, 44100}, c \in {1, 2}}
    \cup {AudioFile(UploadedPath, x, 0, 0, FALSE) : x \in {".wav", ".mp3"}}

\* recordings as (audio_data, sample_rate), in that order and swapped
AsrRecordings ==
    {<<Samples, RateOf(16000)>>, <<Samples, RateOf(44100)>>, <<RateOf(44100), Samples>>}

AsrCallLanguages == {"Chinese", "English", "Japanese", "French", None}

\* every world of one recognition
AllAsrEnvs ==
    {AsrEnv(t, r, p, "hi") :
         t \in TokenOutcomes, r \in {"ok", "fail"},
         p \in {"ok", "err_no", "empty", "non200", "timeout", "neterr"}}

InitAsr ==
    /\ chatbot = <<>>
    /\ chat_history = <<>>
    /\ pc = "idle"
    /\ turn = NoTurn
    /\ \E language \in AsrCallLanguages :
           \/ \E f \in AsrFiles :
                  call = [op |-> "asr_recognize", done |-> FALSE, file |-> f,
                          language |-> language]
           \/ \E a \in AsrRecordings :
                  call = [op |-> "asr_recognize_from_numpy", done |-> FALSE,
                          audio_data |-> a[1], sample_rate |-> a[2],
                          language |-> language]

\* AudioService.asr_recognize(audio_file_path, language)
AsrCall ==
    /\ call.op = "asr_recognize"
    /\ ~call.done
    /\ \E e \in AllAsrEnvs :
           call' = [op |-> "asr_recognize", done |-> TRUE, file |-> call.file,
                    language |-> call.language, env |-> e,
                    result |-> asr_recognize(call.file, call.language, e),
                    left |-> asr_temps(call.file, e)]
    /\ UNCHANGED <<chatbot, chat_history, pc, turn>>

\* AudioService.asr_recognize_from_numpy(audio_data, sample_rate, language)
AsrNumpyCall ==
    /\ call.op = "asr_recognize_from_numpy"
    /\ ~call.done
    /\ \E e \in AllAsrEnvs :
           call' = [op |-> "asr_recognize_from_numpy", done |-> TRUE,
                    audio_data |-> call.audio_data, sample_rate |-> call.sample_rate,
                    language |-> call.language, env |-> e,
                    result |-> asr_recognize_from_numpy(call.audio_data,
                                                        call.sample_rate,
                                                        call.language, e),
                    left |-> numpy_temps(call.audio_data, call.sample_rate, e)]
    /\ UNCHANGED <<chatbot, chat_history, pc, turn>>

NextAsr == AsrCall \/ AsrNumpyCall

SpecAsr == InitAsr /\ [][NextAsr]_vars

\* ------------------------------------------- properties of the recognition

\* a finished direct call of asr_recognize or asr_recognize_from_numpy
Recognised == call.op \in {"asr_recognize", "asr_recognize_from_numpy"} /\ call.done

\* the recognition requests of a call
RecognitionPosts(ev) == {i \in 1..Len(ev) : ev[i].call = "asr_post"}

\* C12: asr_recognize and asr_recognize_from_numpy never raise: whatever the
\* token request, the conversion, the file read and the recognition POST do,
\* the call returns the transcript or one of the fixed failure strings.
C12_RecognitionNeverRaises ==
    Recognised =>
        /\ ~call.result.raised
        /\ call.result.val \in AsrFailureStrings \cup {"hi"}

\* C13: the audio asr_recognize posts is always a non-empty mono 16000 Hz
\* file, whatever the extension, rate and channels of its input; no input is
\* posted as it came with another rate or channel count.
C13_PostedAudioIsMono16k ==
    Recognised =>
        \A i \in RecognitionPosts(call.result.ev) :
            /\ call.result.ev[i].rate = 16000
            /\ call.result.ev[i].channels = 1
            /\ call.result.ev[i].nonempty

C14_NoTemporaryFileLeft == pc = "returned" => turn.temps = {}

\* --------------------------------------------------- events that overlap

\* The event listeners that run handle_chat.  The program sets no queue, no
\* concurrency limit and no lock (lines 946-962, 1192): each listener takes
\* its inputs, the chatbot value among them, when its event fires, and its
\* outputs are written when its handler returns, so a second listener can
\* fire while the first one's handler is waiting for the network.
Listeners == {"submit_btn.click", "msg.submit"}

MaxSubmits == 3

OverlapMessages == {"a", "b"}

\* a world in which every call succeeds
OkEnv == HandlerEnv(AsrEnv("ok", "ok", "ok", "hi"), ChatOk, TtsOk, "ok", "ok", "ok", Now)

NoJob == [busy |-> FALSE, out |-> <<>>]

\* the handler call of a listener that fired with this message and this
\* chatbot value
JobOf(message, history) ==
    [busy |-> TRUE,
     out |-> handle_chat(message, history, Persona("estj", "assist_estj", "ordinary"),
                         SoftFemale, "English", None, NoAudio, OkEnv).out]

InitOverlap ==
    /\ chatbot = <<>>
    /\ chat_history = <<>>
    /\ pc = "idle"
    /\ turn = NoTurn
    /\ call = [op |-> "events", jobs |-> [l \in Listeners |-> NoJob], submitted |-> <<>>]

\* a listener fires: its handler starts with the chatbot value of this moment
EventFires ==
    /\ call.op = "events"
    /\ Len(call.submitted) < MaxSubmits
    /\ \E l \in Listeners, message \in OverlapMessages :
           /\ ~call.jobs[l].busy
           /\ call' = [op |-> "events",
                       jobs |-> [call.jobs EXCEPT ![l] = JobOf(message, chatbot)],
                       submitted |-> Append(call.submitted, message)]
    /\ UNCHANGED <<chatbot, chat_history, pc, turn>>

\* a handler returns: its outputs are written to chatbot and chat_history
EventReturns ==
    /\ call.op = "events"
    /\ \E l \in Listeners :
           /\ call.jobs[l].busy
           /\ chatbot' = call.jobs[l].out[1]
           /\ chat_history' = call.jobs[l].out[2]
           /\ call' = [call EXCEPT !.jobs[l] = NoJob]
    /\ UNCHANGED <<pc, turn>>

NextOverlap == EventFires \/ EventReturns

SpecOverlap == InitOverlap /\ [][NextOverlap]_vars

\* C16: the turns submitted in a session are in the Session History in the
\* order of their submission, none lost and none reordered, whenever no
\* handler is running; no handler result is computed from a history that
\* another running handler overwrites.
C16_TurnsKeptInSubmissionOrder ==
    (call.op = "events" /\ \A l \in Listeners : ~call.jobs[l].busy) =>
        /\ Len(chat_history) = Len(call.submitted)
        /\ \A i \in 1..Len(call.submitted) :
               chat_history[i] = <<call.submitted[i], ChatOk.body.reply>>

\* q is p with exactly one more element at its end
GrowsByOne(p, q) == Len(q) = Len(p) + 1 /\ SubSeq(q, 1, Len(p)) = p

\* C17: every turn that obtains a reply appends exactly one row: the Display
\* History output is the Display History plus one row and the Session
\* History output is the Session History plus one row, also when the row
\* equals one that is already there.
C17_ReplyAppendsExactlyOneRow ==
    (pc = "returned" /\ turn.chat.called /\ ~turn.raised) =>
        /\ GrowsByOne(chatbot, turn.out[1])
        /\ GrowsByOne(chat_history, turn.out[2])

\* C18: a clear leaves the Display History and the Session History empty,
\* however many turns went before, and the first turn after a clear that
\* asks for a reply sends an empty history to the chat endpoint.
C18_ClearEmptiesBothHistories ==
    /\ turn.op = "clear" => chatbot = <<>> /\ chat_history = <<>>
    /\ (pc = "returned" /\ turn.before.op = "clear" /\ turn.chat.called) =>
           turn.chat.ev[1].history = <<>>

\* a reply is asked for right after a clear that removed rows from both
\* histories
C18_ReplyAskedAfterClearedTurns ==
    /\ pc = "returned"
    /\ turn.before.op = "clear"
    /\ turn.before.rows >= 1
    /\ turn.before.turns >= 1
    /\ turn.chat.called
    /\ ~turn.raised

\* p is the beginning of the string s
StartsWith(s, p) == Len(p) <= Len(s) /\ SubSeq(s, 1, Len(p)) = p

\* C19: when the chat request is made the handler's Display History is the
\* one it was given plus one pending row, a user message with no reply; when
\* the turn completes, that last row is replaced by (user text, reply), the
\* rows before it are kept, and the same pair is the last row of the Session
\* History output; handle_chat, handle_audio and handle_upload alike.
C19_PendingRowReplacedByTurn ==
    (pc = "returned" /\ turn.chat.called) =>
        /\ GrowsByOne(turn.history, turn.chat.display)
        /\ Last(turn.chat.display)[2] = None
        /\ ~turn.raised =>
               /\ Len(turn.out[1]) = Len(turn.chat.display)
               /\ SubSeq(turn.out[1], 1, Len(turn.history)) = turn.history
               /\ Last(turn.out[1])[2] = reply_of(turn.chat.val)
               /\ StartsWith(Last(turn.chat.display)[1], Last(turn.out[1])[1])
               /\ StartsWith(turn.chat.ev[1].message, Last(turn.out[1])[1])
               /\ Last(turn.out[2]) = Last(turn.out[1])

\* a turn on a recording completes after a turn that is already displayed:
\* its pending row carried the audio tag and its reply has arrived
C19_AudioTurnCompleted ==
    /\ pc = "returned"
    /\ turn.op = "handle_audio"
    /\ turn.chat.called
    /\ ~turn.raised
    /\ Len(turn.history) >= 1
    /\ Last(turn.chat.display)[1] # Last(turn.out[1])[1]
    /\ Last(turn.out[1])[2] = "yo"

\* what follows the first n characters of the string s
After(s, n) == SubSeq(s, n + 1, Len(s))

\* C20: in every completed turn, whatever the reply language and the handler,
\* the message sent to the chat endpoint is the user text followed by an
\* instruction that is not blank, and the text stored in the last row of the
\* Display History output and of the Session History output is the user text
\* without that instruction.
C20_LanguageInstructionAppended ==
    (pc = "returned" /\ turn.chat.called /\ ~turn.raised) =>
        /\ StartsWith(turn.chat.ev[1].message, Last(turn.out[1])[1])
        /\ strip(After(turn.chat.ev[1].message, Len(Last(turn.out[1])[1]))) # ""
        /\ Last(turn.out[2])[1] = Last(turn.out[1])[1]

\* ------------------------------------------------ properties of the stages

\* the positions of ev that hold a request of the chat endpoint
ChatRequests(ev) == {i \in 1..Len(ev) : ev[i].call = "chat"}

\* C21: within one turn the stages run in the order transcription, chat,
\* synthesis: the calls of the turn are those of the transcription, then
\* those of the one chat request, then those of the one synthesis; the chat
\* endpoint is asked at most once, and after a transcription only when it
\* gave a transcript; the synthesis starts only after the chat request
\* returned; and histories are returned only after the synthesis returned.
C21_StagesRunInOrder ==
    pc = "returned" =>
        /\ turn.ev = turn.asr.ev \o turn.chat.ev \o turn.tts.ev
        /\ Cardinality(ChatRequests(turn.ev)) <= 1
        /\ ChatRequests(turn.asr.ev) = {} /\ ChatRequests(turn.tts.ev) = {}
        /\ (turn.chat.called /\ turn.asr.called) =>
               /\ ~turn.asr.raised
               /\ ~Falsy(turn.asr.val)
               /\ turn.asr.val \notin AsrFailureStrings
        /\ turn.tts.called => turn.chat.called /\ ~turn.chat.raised
        /\ (turn.chat.called /\ ~turn.raised) => turn.tts.called /\ ~turn.tts.raised

\* C21 without its condition on the transcript: the order of the calls alone
StagesInCallOrder ==
    pc = "returned" =>
        /\ turn.ev = turn.asr.ev \o turn.chat.ev \o turn.tts.ev
        /\ Cardinality(ChatRequests(turn.ev)) <= 1
        /\ turn.tts.called => turn.chat.called /\ ~turn.chat.raised
        /\ (turn.chat.called /\ ~turn.raised) => turn.tts.called /\ ~turn.tts.raised

\* the turn ran handle_chat, directly or through handle_audio, and returned
ChatTurnReturned ==
    /\ pc = "returned"
    /\ turn.op \in {"handle_chat", "handle_audio"}
    /\ ~turn.raised

\* C22: every audio output of handle_chat that is not None is a path of a
\* file directly inside the static directory of the application, whether
\* the synthesis left its file in the temporary directory (Baidu) or in the
\* static directory (Volcano); a file that cannot be copied there gives None.
C22_AudioOutputInsideStaticDir ==
    ChatTurnReturned =>
        \/ turn.out[3] = None
        \/ turn.out[3] = AppStaticDir \o "/" \o basename(turn.out[3])

\* a reply synthesised by Baidu into the temporary directory is returned
\* from the static directory
C22_BaiduFileServedFromStaticDir ==
    /\ ChatTurnReturned
    /\ turn.tts.called
    /\ turn.tts.val = BaiduTtsPath
    /\ turn.out[3] = AppStaticDir \o "/" \o basename(BaiduTtsPath)

\* ----------------------------------------- properties of the audio files

\* the synthesis returned a path
ReturnedPath == Synthesised /\ ~call.result.raised /\ call.result.val # None

\* C23: every value other than None that tts_synthesize returns, with Baidu
\* or with Volcano, is the path of a file that holds the audio received
\* from the provider in this call: the audio body, or the bytes decoded from
\* the base64 text.
C23_ReturnedPathHoldsAudio ==
    ReturnedPath => call.file \in {AudioBody, DecodedBytes}

\* the call takes the Volcano path with text to synthesise
VolcanoSynthesis ==
    /\ Synthesised
    /\ call.args.tts_engine = "volcano"
    /\ call.args.language # "Chinese"
    /\ strip(call.text) # ""

\* the response carries audio that volcano_tts_synthesize is to save: JSON
\* with code 0 or 3000 and valid base64 text in data, or with data empty in
\* payload.audio_data, or a body that is not JSON under an audio content type
CarriesAudio(t) ==
    \/ /\ t.post = "json"
       /\ t.code \in {0, 3000}
       /\ \/ t.data = "b64"
          \/ t.data = "" /\ t.payload = "b64"
    \/ t.post = "nonjson" /\ t.ctype = "audio"

\* C25: volcano_tts_synthesize, for a language other than Chinese and text
\* that is not blank, returns a path exactly when the status is 200, the
\* response carries audio and the file is written; in every other case, a
\* JSON body with an undecodable audio field included, it returns None; and
\* a returned path never holds anything but audio.
C25_VolcanoPathOnlyForAudio ==
    VolcanoSynthesis =>
        /\ ~call.result.raised
        /\ call.result.val # None <=> (CarriesAudio(call.env) /\ call.env.write = "ok")
        /\ call.result.val # None => call.file \in {AudioBody, DecodedBytes}

\* ------------------------------------------- the files of several turns

\* int(time.time()) at the seconds the clock goes through
Seconds == <<"1700000000", "1700000001", "1700000002">>

MaxArtifacts == 3

\* a world at the clock value now in which every call succeeds
EnvAt(now) ==
    HandlerEnv(AsrEnv("ok", "ok", "ok", "hi"), ChatOk,
               TtsEnv("ok", "json", "other", 0, "b64", "absent", "ok", "ok", now),
               "ok", "ok", "ok", now)

\* the path of the reply audio a Volcano synthesis writes at the clock value now
VolcanoOutputAt(now) ==
    volcano_tts_synthesize("yo", DefaultTtsArgs("volcano", "English"), EnvAt(now).tts).val

\* the path handle_chat saves the recording of a turn under at the clock
\* value now
SavedInputAt(now) ==
    handle_chat_audio(<<>>, "English", "English", PathAudio(TRUE, Wav16kMono),
                      EnvAt(now)).audio_path

\* the file system after open(path, "wb").write(content), or shutil.copy to
\* path: the file is created, or replaced when it exists
Written(files, path, content) == (path :> content) @@ files

InitFiles ==
    /\ chatbot = <<>>
    /\ chat_history = <<>>
    /\ pc = "idle"
    /\ turn = NoTurn
    /\ call = [op |-> "files", clock |-> 1, files |-> <<>>, made |-> <<>>]

\* a second passes
ClockTicks ==
    /\ call.op = "files"
    /\ call.clock < Len(Seconds)
    /\ call' = [call EXCEPT !.clock = call.clock + 1]
    /\ UNCHANGED <<chatbot, chat_history, pc, turn>>

\* The turn that comes next, at the clock of this moment, writes the
\* artifact of this kind at path; what it writes is told apart by its number.
ArtifactWritten(kind, path) ==
    /\ call.op = "files"
    /\ Len(call.made) < MaxArtifacts
    /\ call' = [call EXCEPT
                    !.files = Written(call.files, path, Len(call.made) + 1),
                    !.made = Append(call.made,
                                    [kind |-> kind, second |-> call.clock, path |-> path,
                                     content |-> Len(call.made) + 1])]
    /\ UNCHANGED <<chatbot, chat_history, pc, turn>>

\* volcano_tts_synthesize writes the reply audio of a turn
VolcanoWrites == ArtifactWritten("tts_output", VolcanoOutputAt(Seconds[call.clock]))

\* handle_chat saves the recording of a turn for playback
InputSaved == ArtifactWritten("audio_input", SavedInputAt(Seconds[call.clock]))

NextFiles == ClockTicks \/ VolcanoWrites \/ InputSaved

SpecFiles == InitFiles /\ [][NextFiles]_vars

\* the artifacts written so far, in order
Made == IF call.op = "files" THEN call.made ELSE <<>>

SfWrite(data, samplerate) == [data |-> data, samplerate |-> samplerate]

\* asr_recognize_from_numpy: sf.write(temp_file.name, audio_data, sample_rate)
numpy_sf_write(audio_data, sample_rate) == SfWrite(audio_data, sample_rate)

\* handle_audio: audio_data, sample_rate = audio, then
\* asr_recognize_from_numpy(audio_data, sample_rate, ...)
audio_sf_write(audio) == numpy_sf_write(audio.pair[1], audio.pair[2])

\* handle_chat: sf.write(temp_audio.name, audio[1], audio[0])
chat_sf_write(audio) == SfWrite(audio.pair[2], audio.pair[1])

\* recordings as Gradio passes them: (sample_rate, samples)
Recordings == {PairAudio(RateOf(r), Samples) : r \in {8000, 16000, 44100}}

InitPair ==
    /\ chatbot = <<>>
    /\ chat_history = <<>>
    /\ pc = "idle"
    /\ turn = NoTurn
    /\ \E audio \in Recordings, language \in ReplyLanguages,
          asr_language \in {"Chinese", "English"}, env \in HandlerEnvs :
           call = [op |-> "recording", done |-> FALSE, audio |-> audio,
                   language |-> language, asr_language |-> asr_language, env |-> env]

\* what the two handlers did with the recording: a is handle_audio's result,
\* c handle_chat's
PairDone(c0, a, c) ==
    [op |-> "recording", done |-> TRUE, audio |-> c0.audio,
     by_audio |-> audio_sf_write(c0.audio), by_chat |-> chat_sf_write(c0.audio),
     audio_asr |-> a.asr, chat_asr |-> c.asr, audio_out |-> a.out, chat_out |-> c.out]

\* the same recording given to handle_audio and, as its audio argument, to
\* handle_chat
RecordingHandled ==
    /\ call.op = "recording"
    /\ ~call.done
    /\ call' = PairDone(call,
                        handle_audio(call.audio, <<>>,
                                     Persona("estj", "assist_estj", "ordinary"),
                                     SoftFemale, call.language, call.asr_language,
                                     call.env),
                        handle_chat(None, <<>>, Persona("estj", "assist_estj", "ordinary"),
                                    SoftFemale, call.language, call.asr_language,
                                    call.audio, call.env))
    /\ UNCHANGED <<chatbot, chat_history, pc, turn>>

NextPair == RecordingHandled

SpecPair == InitPair /\ [][NextPair]_vars

\* C26: for a recording (sample_rate, samples) both handlers encode the WAV
\* with the first component as sample rate and the second as data: what
\* handle_audio gives sf.write through asr_recognize_from_numpy is what
\* handle_chat gives it, and the recognition gives both the same result.
C26_RecordingEncodedAlike ==
    (call.op = "recording" /\ call.done) =>
        /\ call.by_chat = SfWrite(call.audio.pair[2], call.audio.pair[1])
        /\ call.by_audio = call.by_chat
        /\ call.audio_asr.val = call.chat_asr.val

\* --------------------------------------------- properties of the outputs

\* C27: whenever handle_chat, handle_audio or handle_upload returns, on
\* success, on empty input, on a missing file, on a failed transcription and
\* after a caught exception, it returns four values, one for each output
\* component of its event: Display History, Session History, audio output
\* and the emptied text box.
C27_HandlersReturnFourOutputs ==
    (pc = "returned" /\ ~turn.raised) =>
        /\ Len(turn.out) = 4
        /\ turn.out[4] = ""

\* --------------------------------- one event under two Session Histories

\* Display Histories an event can find: empty, one completed turn, one
\* retry row, and a turn after a retry row
TwinDisplays ==
    {<<>>, <<<<"hi", "yo">>>>,
     <<<<EmptyAudioTag, "Invalid audio file">>>>,
     <<<<EmptyAudioTag, "Invalid audio file">>, <<"hi", "yo">>>>}

\* values of the chat_history State
TwinSessions == {<<>>, <<<<"hi", "yo">>>>, <<<<"hi", "yo">>, <<"hi", "yo">>>>}

TwinEvents == {"submit_btn.click", "audio_input.change", "upload_btn.upload"}

\* the handler of the event e run on the Display History with the inputs
\* of the event
TwinHandler(e, history, language, env) ==
    IF e = "submit_btn.click"
    THEN handle_chat("hi", history, Persona("estj", "assist_estj", "ordinary"), SoftFemale,
                     language, None, NoAudio, env)
    ELSE IF e = "audio_input.change"
    THEN handle_audio(PathAudio(TRUE, Wav16kMono), history,
                      Persona("estj", "assist_estj", "ordinary"), SoftFemale, language,
                      "English", env)
    ELSE handle_upload(PathAudio(TRUE, Wav16kMono), history,
                       Persona("estj", "assist_estj", "ordinary"), SoftFemale, language,
                       "English", env)

\* what a run shows: whether it raised, and its outputs
Shown(r) == [raised |-> r.raised, out |-> r.out, chat |-> r.chat.called]

InitTwin ==
    /\ chatbot \in TwinDisplays
    /\ chat_history \in TwinSessions
    /\ pc = "idle"
    /\ turn = NoTurn
    /\ \E e \in TwinEvents, language \in ReplyLanguages, env \in HandlerEnvs,
          other \in TwinSessions :
           /\ other # chat_history
           /\ call = [op |-> "twin", event |-> e, language |-> language, env |-> env,
                      first |-> chat_history, other |-> other, runs |-> <<>>]

\* The event fires and its handler runs: once with the one Session History
\* in the State, once with the other.  The components are not written.
TwinRuns ==
    /\ call.op = "twin"
    /\ Len(call.runs) < 2
    /\ chat_history = IF call.runs = <<>> THEN call.first ELSE call.other
    /\ call' = [call EXCEPT
                    !.runs = Append(@, Shown(TwinHandler(call.event, chatbot, call.language,
                                                         call.env)))]
    /\ UNCHANGED <<chatbot, chat_history, pc, turn>>

\* the State holds the other Session History for the second run
TwinStateReplaced ==
    /\ call.op = "twin"
    /\ Len(call.runs) = 1
    /\ chat_history = call.first
    /\ chat_history' = call.other
    /\ UNCHANGED <<chatbot, pc, turn, call>>

NextTwin == TwinRuns \/ TwinStateReplaced

SpecTwin == InitTwin /\ [][NextTwin]_vars

\* both runs of the event are done
TwinDone == call.op = "twin" /\ Len(call.runs) = 2

RowsAdded == Len(turn.out[1]) - Len(turn.history)

\* C29: the Display History a handler returns begins with the Display
\* History it was given, unchanged; it is one row longer when a reply was
\* asked for, or when an error row of the transcription stage is shown, and
\* as long otherwise; and the list the handler was given is as it was.
C29_DisplayHistoryOnlyGrows ==
    (pc = "returned" /\ ~turn.raised) =>
        /\ RowsAdded \in {0, 1}
        /\ SubSeq(turn.out[1], 1, Len(turn.history)) = turn.history
        /\ turn.chat.called => RowsAdded = 1
        /\ (RowsAdded = 1 /\ ~turn.chat.called) => Last(turn.out[1])[2] \in ErrorReplies
        /\ RowsAdded = 0 => turn.ev = <<>>
        /\ chatbot = turn.history

\* an error row is shown below a row that was already displayed
C29_ErrorRowBelowEarlierRow ==
    /\ pc = "returned"
    /\ ~turn.raised
    /\ Len(turn.history) >= 1
    /\ ~turn.chat.called
    /\ RowsAdded = 1
    /\ Last(turn.out[1])[2] \in ErrorReplies

\* C30: a turn of handle_chat on a message that is empty or blank, without
\* audio, calls no service, returns the Display History it was given and no
\* audio, and returns as Session History the completed turns the Session
\* History held before the call.
C30_BlankMessageIsNoOp ==
    (pc = "returned" /\ turn.op = "handle_chat" /\ ~turn.chat.called) =>
        /\ ~turn.raised
        /\ turn.ev = <<>>
        /\ ~turn.asr.called /\ ~turn.tts.called
        /\ turn.out[1] = turn.history
        /\ turn.out[3] = None
        /\ turn.out[2] = chat_history

====
